---- MODULE Spec2Model ----
(***************************************************************************)
(* Model of scrape_courses.py: the text normaliser short_text, the page    *)
(* classifier is_listing_page, the listing link extractor                  *)
(* extract_course_links_from_listing and the crawl loop of                 *)
(* scrape_for_category / main.                                             *)
(*                                                                         *)
(* Strings are sequences of atoms.  In SpecText an atom is one character.  *)
(* In URLs, anchor texts and titles an atom is an indivisible piece of     *)
(* text ("https:", "//", "coursera.org", "course", "?", ...); a substring  *)
(* test "k in s" is then "some atom of s contains k" (Has).                *)
(***************************************************************************)
EXTENDS Integers, Sequences, FiniteSets, TLC

VARIABLES
    \* --- short_text ---
    text, max_len, out1, out2, tpc,
    \* --- is_listing_page ---
    c_url, c_soup, c_result, cpc,
    \* --- extract_course_links_from_listing ---
    l_url, l_soup, l_links, lpc,
    \* --- crawl ---
    pc, cat, urls, ui, soup, links, li, results, all_data, written,
    slept, last_gap, event, fetch_failed, rec_after_fail

textVars  == <<text, max_len, out1, out2, tpc>>
classVars == <<c_url, c_soup, c_result, cpc>>
linkVars  == <<l_url, l_soup, l_links, lpc>>
crawlVars == <<pc, cat, urls, ui, soup, links, li, results, all_data, written,
               slept, last_gap, event, fetch_failed, rec_after_fail>>
vars == <<textVars, classVars, linkVars, crawlVars>>

----------------------------------------------------------------------------
(* Bounds.  NumCategories stands for len(COURSE_CATEGORIES) and MaxUrls for *)
(* the number of organic results a search returns.                         *)
MaxStrLen == 4
MaxN == 13
MaxRuns == 2
MaxAnchors == 10
MaxSpecials == 1
NumCategories == 2
MaxUrls == 2

----------------------------------------------------------------------------
(* Generic sequence helpers *)
Min(a, b) == IF a <= b THEN a ELSE b

Take(s, n) == SubSeq(s, 1, Min(n, Len(s)))

RECURSIVE SeqsUpTo(_, _)
SeqsUpTo(S, n) ==
    IF n = 0 THEN {<<>>}
    ELSE LET prev == SeqsUpTo(S, n - 1)
         IN  prev \cup {Append(p, x) : p \in {q \in prev : Len(q) = n - 1}, x \in S}

----------------------------------------------------------------------------
(* short_text *)
NotAvailable == <<"N", "o", "t", " ", "a", "v", "a", "i", "l", "a", "b", "l", "e">>
Ellipsis == <<".", ".", ".">>

IsSpace(c) == c \in {" ", "\t", "\n"}

\* text.split(): the maximal runs of non-whitespace, in order
RECURSIVE SplitWs(_, _, _)
SplitWs(s, words, cur) ==
    IF s = <<>> THEN (IF cur = <<>> THEN words ELSE Append(words, cur))
    ELSE IF IsSpace(Head(s))
         THEN SplitWs(Tail(s), IF cur = <<>> THEN words ELSE Append(words, cur), <<>>)
         ELSE SplitWs(Tail(s), words, Append(cur, Head(s)))

\* ' '.join(words)
RECURSIVE JoinSp(_)
JoinSp(words) ==
    IF words = <<>> THEN <<>>
    ELSE IF Len(words) = 1 THEN words[1]
    ELSE words[1] \o <<" ">> \o JoinSp(Tail(words))

\* t.rsplit(' ', 1)[0]
RSplitHead(t) ==
    LET sp == {i \in 1..Len(t) : t[i] = " "}
    IN  IF sp = {} THEN t
        ELSE SubSeq(t, 1, (CHOOSE i \in sp : \A j \in sp : j <= i) - 1)

short_text_keep_ws(s, n) ==
    IF s = <<>> THEN NotAvailable
    ELSE IF Len(s) <= n THEN s
         ELSE RSplitHead(Take(s, n)) \o Ellipsis

short_text(s, n) ==
    IF s = <<>> THEN NotAvailable
    ELSE LET t == JoinSp(SplitWs(s, <<>>, <<>>))
         IN  IF Len(t) <= n THEN t
             ELSE RSplitHead(Take(t, n)) \o Ellipsis

TextAlphabet == {"a", " ", "\t"}

InitText ==
    /\ text \in SeqsUpTo(TextAlphabet, MaxStrLen)
    /\ max_len \in 0..MaxN
    /\ out1 = <<>>
    /\ out2 = <<>>
    /\ tpc = "start"

\* out = short_text(text, max_len)
ApplyShortText ==
    /\ tpc = "start"
    /\ out1' = short_text(text, max_len)
    /\ tpc' = "once"
    /\ UNCHANGED <<text, max_len, out2>>
    /\ UNCHANGED <<classVars, linkVars, crawlVars>>

\* short_text(out, max_len) on the previous output
ApplyShortTextAgain ==
    /\ tpc = "once"
    /\ out2' = short_text(out1, max_len)
    /\ tpc' = "twice"
    /\ UNCHANGED <<text, max_len, out1>>
    /\ UNCHANGED <<classVars, linkVars, crawlVars>>

----------------------------------------------------------------------------
(* URLs, anchors and pages *)

\* Proper containment between the atoms used below: <<a, k>> means that the
\* text k occurs inside the atom a ("course" occurs in "coursera.org").
AtomContains ==
    { <<"courses", "course">>,
      <<"coursera.org", "course">>,
      <<"[coursera.org", "course">>,
      <<"[coursera.org", "coursera.org">>,
      <<"programs", "program">> }

AtomHas(a, k) == a = k \/ <<a, k>> \in AtomContains

\* k in s
In(k, s) == \E i \in 1..Len(s) : AtomHas(s[i], k)

\* str.lower()
LowerAtom(a) ==
    CASE a = "Learn" -> "learn"
      [] a = "Courses" -> "courses"
      [] a = "Course" -> "course"
      [] OTHER -> a

Lower(s) == [i \in 1..Len(s) |-> LowerAtom(s[i])]

\* s.startswith(p)
StartsWith(s, p) == Len(s) >= 1 /\ (s[1] = p \/ (p = "/" /\ s[1] = "//"))

Schemes == {"https:", "http:"}

\* index of the host atom of an absolute or protocol-relative URL, 0 if none
HostIndex(u) ==
    IF Len(u) >= 3 /\ u[1] \in Schemes /\ u[2] = "//" THEN 3
    ELSE IF Len(u) >= 2 /\ u[1] = "//" THEN 2
    ELSE 0

\* urlparse(u).scheme, with its colon
UrlScheme(u) == IF Len(u) >= 1 /\ u[1] \in Schemes THEN u[1] ELSE ""

\* urlparse(u).netloc
UrlNetloc(u) == IF HostIndex(u) = 0 THEN "" ELSE u[HostIndex(u)]

\* urlparse(u) raises ValueError("Invalid IPv6 URL") on an unbalanced bracket
UrlParseRaises(u) == UrlNetloc(u) = "[coursera.org"

\* first position of the atom c in s at or after position from, else Len(s)+1
RECURSIVE IndexFrom(_, _, _)
IndexFrom(s, c, from) ==
    IF from > Len(s) THEN Len(s) + 1
    ELSE IF s[from] = c THEN from
    ELSE IndexFrom(s, c, from + 1)

\* urlparse(u).path: what follows the host up to the query or fragment
UrlPath(u) ==
    LET start == HostIndex(u) + 1
        stop  == Min(IndexFrom(u, "?", start), IndexFrom(u, "#", start)) - 1
    IN  SubSeq(u, start, stop)

\* href.split('?')[0]
SplitQuery(h) == SubSeq(h, 1, IndexFrom(h, "?", 1) - 1)

\* urljoin(scheme://netloc, href) for a root-relative href: the href replaces
\* the (empty) path of the base and keeps its own query and fragment
UrlJoinRoot(u, h) == <<UrlScheme(u), "//", UrlNetloc(u)>> \o h

Anchor(h, t) == [has_href |-> TRUE, href |-> h, text |-> t]
BareAnchor(t) == [has_href |-> FALSE, href |-> <<>>, text |-> t]

\* soup.find_all('a', href=True)
AnchorsWithHref(sp) == SelectSeq(sp.anchors, LAMBDA a : a.has_href)

----------------------------------------------------------------------------
(* is_listing_page *)

ANCHOR_SCAN_LIMIT == 200
LISTING_THRESHOLD == 3
ListingHrefKeywords == {"course", "learn", "program", "specialization"}

\* any(k in href.lower() for k in [...])
HrefLooksLikeCourse(a) == \E k \in ListingHrefKeywords : In(k, Lower(a.href))

\* the counting loop: the number of anchors as[lo..hi] whose href looks like
\* a course link (summed over the two halves of the range)
RECURSIVE CountCourseAnchors(_, _, _)
CountCourseAnchors(as, lo, hi) ==
    IF lo > hi THEN 0
    ELSE IF lo = hi THEN (IF HrefLooksLikeCourse(as[lo]) THEN 1 ELSE 0)
    ELSE LET mid == (lo + hi) \div 2
         IN  CountCourseAnchors(as, lo, mid) + CountCourseAnchors(as, mid + 1, hi)

is_listing_page_anchor_text(url, sp) ==
    LET path  == Lower(UrlPath(url))
        title == Lower(sp.title)
    IN  IF In("courses", path) \/ In("courses", title)
           \/ In("catalog", path) \/ In("learn", path)
        THEN TRUE
        ELSE Cardinality({i \in 1..Min(Len(AnchorsWithHref(sp)), ANCHOR_SCAN_LIMIT) :
                 \/ HrefLooksLikeCourse(AnchorsWithHref(sp)[i])
                 \/ \E k \in ListingHrefKeywords :
                        In(k, Lower(AnchorsWithHref(sp)[i].text))})
             >= LISTING_THRESHOLD

is_listing_page(url, sp) ==
    LET path  == Lower(UrlPath(url))
        title == Lower(sp.title)
    IN  IF In("courses", path) \/ In("courses", title)
           \/ In("catalog", path) \/ In("learn", path)
        THEN TRUE
        ELSE LET scanned == Take(AnchorsWithHref(sp), ANCHOR_SCAN_LIMIT)
             IN  CountCourseAnchors(scanned, 1, Len(scanned)) >= LISTING_THRESHOLD

\* Input pages of the classifier: runs of identical anchors
ClassAnchorKinds ==
    { Anchor(<<"https:", "//", "udemy.com", "/", "course", "/", "a">>, <<"x">>),
      Anchor(<<"/", "Learn", "/", "b">>, <<>>),
      Anchor(<<"/", "x">>, <<"Course">>),
      Anchor(<<"/", "certificate", "/", "x">>, <<>>),
      Anchor(<<"/", "about">>, <<"about">>),
      BareAnchor(<<"course">>) }

RunLengths == {1, 2, 3, 199}

Runs == [anchor : ClassAnchorKinds, n : RunLengths]

RECURSIVE Expand(_)
Expand(rs) ==
    IF rs = <<>> THEN <<>>
    ELSE [i \in 1..Head(rs).n |-> Head(rs).anchor] \o Expand(Tail(rs))

ClassUrls ==
    { <<"https:", "//", "udemy.com", "/", "x", "?", "courses">>,
      <<"https:", "//", "udemy.com", "/", "Learn", "/", "x">> }

ClassTitles == { <<>>, <<"Intro">>, <<"All", " ", "Courses">> }

InitClass ==
    /\ c_url \in ClassUrls
    /\ \E rs \in SeqsUpTo(Runs, MaxRuns), t \in ClassTitles :
          c_soup = [title |-> t, anchors |-> Expand(rs), parser_error |-> FALSE]
    /\ c_result = FALSE
    /\ cpc = "start"

\* c_result = is_listing_page(c_url, c_soup, domain)
Classify ==
    /\ cpc = "start"
    /\ c_result' = is_listing_page(c_url, c_soup)
    /\ cpc' = "done"
    /\ UNCHANGED <<c_url, c_soup>>
    /\ UNCHANGED <<textVars, linkVars, crawlVars>>

----------------------------------------------------------------------------
(* extract_course_links_from_listing *)

MAX_COURSES_FROM_LISTING == 8
LinkHrefKeywords == {"course", "learn", "certificate", "program"}
LinkTextKeywords == {"course", "program", "specialization", "path", "certificate", "bootcamp"}

\* the href after the two "normalize" steps
ResolveHref(url, h) ==
    LET h1 == IF StartsWith(h, "//") THEN <<"https:">> \o h ELSE h
    IN  IF StartsWith(h1, "/") THEN UrlJoinRoot(url, h1) ELSE h1

\* the first links.add(...): platform domain and a keyword in the href
AcceptedByHref(href, domain) ==
    In(domain, href) /\ \E k \in LinkHrefKeywords : In(k, href)

\* the second links.add(...): platform domain in the href or in the anchor
\* text, and a keyword in the anchor text
AcceptedByText(href, atext, domain) ==
    (In(domain, href) \/ In(domain, Lower(atext)))
        /\ \E k \in LinkTextKeywords : In(k, Lower(atext))

\* the value an anchor adds to links: <<href.split('?')[0]>>, or <<>> when
\* neither test accepts it
LinkCandidate(url, a, domain) ==
    LET href == ResolveHref(url, a.href)
    IN  IF AcceptedByHref(href, domain) \/ AcceptedByText(href, a.text, domain)
        THEN <<SplitQuery(href)>>
        ELSE <<>>

AddNew(acc, c) ==
    IF c = <<>> \/ \E i \in 1..Len(acc) : acc[i] = c[1] THEN acc ELSE acc \o c

\* the loop over the anchors; acc is the content of the set links, kept in
\* insertion order
RECURSIVE CollectLinks(_, _, _, _)
CollectLinks(url, as, domain, acc) ==
    IF as = <<>> THEN acc
    ELSE LET acc1 == AddNew(acc, LinkCandidate(url, Head(as), domain))
         IN  IF Len(acc1) >= MAX_COURSES_FROM_LISTING THEN acc1
             ELSE CollectLinks(url, Tail(as), domain, acc1)

Rotate(s, k) == [i \in 1..Len(s) |-> s[((i + k - 1) % Len(s)) + 1]]
Reverse(s) == [i \in 1..Len(s) |-> s[Len(s) + 1 - i]]

\* list(links): the iteration order of a set of str depends on the
\* per-process hash seed.  The orders drawn here are the rotations of the
\* insertion order and their reversals (every permutation for up to three
\* links, a subset of the possible orders beyond).
SetOrders(s) ==
    IF s = <<>> THEN {<<>>}
    ELSE {Rotate(s, k) : k \in 0..(Len(s) - 1)}
         \cup {Reverse(Rotate(s, k)) : k \in 0..(Len(s) - 1)}

\* the possible return values
extract_course_links_from_listing(url, sp, domain) ==
    SetOrders(CollectLinks(url, AnchorsWithHref(sp), domain, <<>>))

\* Input pages of the extractor
CourseIds == <<"c1", "c2", "c3", "c4", "c5", "c6", "c7", "c8", "c9", "c10", "c11", "c12">>

FreshAnchor(i) == Anchor(<<"/", "course", "/", CourseIds[i]>>, <<"x">>)

SpecialAnchors(domain) ==
    { Anchor(<<"https:", "//", "other.com", "/", "x">>, <<domain, " ", "Course">>),
      Anchor(<<"https:", "//", "other.com", "/", domain, "/", "course">>, <<"x">>),
      Anchor(<<"/", "course", "/", "c1", "?", "q">>, <<"x">>),
      Anchor(<<"/", "course", "/", "c1", "#", "f">>, <<"x">>),
      Anchor(<<"//", domain, "/", "learn", "/", "z">>, <<>>),
      Anchor(<<"/", "about">>, <<"about">>),
      Anchor(<<"/", "x">>, <<"Bootcamp">>),
      Anchor(<<"course", "/", "b">>, <<domain, " ", "course">>),
      BareAnchor(<<"course">>) }

NumSpecials(p, domain) == Cardinality({i \in 1..Len(p) : p[i] \in SpecialAnchors(domain)})

\* pages of n anchors: the i-th anchor is the i-th course link or a special
\* anchor, with at most MaxSpecials special anchors per page
RECURSIVE ListingAnchorsOfLen(_, _)
ListingAnchorsOfLen(n, domain) ==
    IF n = 0 THEN {<<>>}
    ELSE {Append(p, a) :
             p \in ListingAnchorsOfLen(n - 1, domain),
             a \in {FreshAnchor(n)}}
         \cup {Append(p, a) :
             p \in {q \in ListingAnchorsOfLen(n - 1, domain) :
                       NumSpecials(q, domain) < MaxSpecials},
             a \in SpecialAnchors(domain)}

ListingAnchors(domain) ==
    UNION {ListingAnchorsOfLen(n, domain) : n \in 0..MaxAnchors}

ListingUrls ==
    { <<"https:", "//", "udemy.com", "/", "courses", "?", "p">>,
      <<"https:", "//", "coursera.org", "/", "browse">> }

InitLinks ==
    /\ l_url \in ListingUrls
    /\ \E as \in ListingAnchors(Lower(<<UrlNetloc(l_url)>>)[1]) :
          l_soup = [title |-> <<>>, anchors |-> as, parser_error |-> FALSE]
    /\ l_links = <<>>
    /\ lpc = "start"

\* l_links = extract_course_links_from_listing(l_url, l_soup, domain)
ExtractLinks ==
    /\ lpc = "start"
    /\ l_links' \in extract_course_links_from_listing(
                        l_url, l_soup, Lower(<<UrlNetloc(l_url)>>)[1])
    /\ lpc' = "done"
    /\ UNCHANGED <<l_url, l_soup>>
    /\ UNCHANGED <<textVars, classVars, crawlVars>>

----------------------------------------------------------------------------
(* The web and the search engine seen by the crawl *)

UrlUdemyDetail   == <<"https:", "//", "udemy.com", "/", "course", "/", "x", "?", "q">>
UrlCourseraList  == <<"https:", "//", "coursera.org", "/", "courses">>
UrlEdxPage       == <<"https:", "//", "edx.org", "/", "x">>

\* organic results the search engine may return, in rank order
UrlPool == <<UrlUdemyDetail, UrlCourseraList, UrlEdxPage>>

SearchResults ==
    {SubSeq(UrlPool, i, j) : i \in 1..Len(UrlPool), j \in 0..Len(UrlPool)}
        \cap SeqsUpTo({UrlPool[i] : i \in 1..Len(UrlPool)}, MaxUrls)

Page(t, as, bad) == [title |-> t, anchors |-> as, parser_error |-> bad]

\* the documents a URL may serve; parser_error marks a document on which the
\* platform parser raises
WebPages(u) ==
    IF u = UrlCourseraList
    THEN { Page(<<"Browse">>,
                << Anchor(<<"/", "learn", "/", "a", "?", "q">>, <<"x">>),
                   Anchor(<<"https:", "//", "coursera.org", "/", "course", "/", "b", "#", "f">>, <<"x">>) >>,
                FALSE),
           Page(<<"Browse">>,
                << Anchor(<<"https:", "//", "[coursera.org", "/", "course">>, <<"x">>) >>,
                FALSE) }
    ELSE IF u = UrlEdxPage
    THEN { Page(<<" ">>,
                << Anchor(<<"https:", "//", "other.com", "/", "course", "/", "m">>, <<"x">>),
                   Anchor(<<"/", "Course", "/", "n">>, <<"x">>),
                   Anchor(<<"/", "program", "/", "p">>, <<"x">>) >>,
                FALSE),
           Page(<<"Intro", " ", " ", "x">>,
                << Anchor(<<"/", "course", "/", "m">>, <<"x">>) >>,
                FALSE) }
    ELSE { Page(<<"Intro", " ", "x">>, <<>>, FALSE),
           Page(<<"Intro", " ", "x">>, <<>>, TRUE) }

\* requests.get raises (MissingSchema) on a URL without scheme and host, and
\* may fail on any other URL
FetchMustFail(u) == UrlScheme(u) = "" \/ UrlNetloc(u) = ""

----------------------------------------------------------------------------
(* route_and_parse and the platform parsers *)

TITLE_MAX_LEN == 200

\* parse_common_meta: course_name from the title
parse_common_meta(sp) ==
    short_text(IF sp.title = <<>> THEN NotAvailable ELSE sp.title, TITLE_MAX_LEN)

PlatformLabel(netloc) ==
    CASE AtomHas(netloc, "coursera.org") -> "Coursera"
      [] AtomHas(netloc, "udemy.com") -> "Udemy"
      [] AtomHas(netloc, "edx.org") -> "edX"
      [] AtomHas(netloc, "pluralsight.com") -> "Pluralsight"
      [] AtomHas(netloc, "khanacademy.org") -> "Khan Academy"
      [] AtomHas(netloc, "freecodecamp.org") -> "FreeCodeCamp"
      [] OTHER -> netloc

\* parse_<platform>(url, soup): the fields the crawl model keeps
ParsedRecord(url, sp) ==
    [course_name |-> parse_common_meta(sp),
     platform    |-> PlatformLabel(LowerAtom(UrlNetloc(url))),
     url         |-> url]

Raised == [kind |-> "raise", fetched |-> FALSE, failed |-> FALSE]
FetchFailed == [kind |-> "none", fetched |-> TRUE, failed |-> TRUE]
Parsed(url, sp) ==
    [kind |-> "record", fetched |-> TRUE, failed |-> FALSE, rec |-> ParsedRecord(url, sp)]
ParserRaised == [kind |-> "raise", fetched |-> TRUE, failed |-> FALSE]

\* except Exception in route_and_parse: print and return None
OnFetchError == FetchFailed

\* the possible outcomes of route_and_parse(url)
route_and_parse(url) ==
    IF UrlParseRaises(url) THEN {Raised}
    ELSE {OnFetchError}
         \cup (IF FetchMustFail(url) THEN {}
               ELSE {IF sp.parser_error THEN ParserRaised ELSE Parsed(url, sp) :
                        sp \in WebPages(url)})

----------------------------------------------------------------------------
(* scrape_for_category and main *)

\* a call of get_soup: note whether PAGE_REQUEST_DELAY was slept since the
\* previous call
NoteFetch ==
    /\ last_gap' = IF slept THEN "slept" ELSE "unslept"
    /\ slept' = FALSE

WithCategory(rec) ==
    [course_name |-> rec.course_name, platform |-> rec.platform,
     url |-> rec.url, category_query |-> cat]

InitCrawl ==
    /\ pc = "main_loop"
    /\ cat = 1
    /\ urls = <<>>
    /\ ui = 1
    /\ soup = Page(<<>>, <<>>, FALSE)
    /\ links = <<>>
    /\ li = 1
    /\ results = <<>>
    /\ all_data = <<>>
    /\ written = <<>>
    /\ slept = FALSE
    /\ last_gap = "none"
    /\ event = "start"
    /\ fetch_failed = FALSE
    /\ rec_after_fail = FALSE

\* main: for cat in COURSE_CATEGORIES (total_searches is cat - 1)
MainLoop ==
    /\ pc = "main_loop"
    /\ pc' = IF cat > NumCategories \/ cat - 1 >= NumCategories
             THEN "output" ELSE "search"
    /\ event' = "step"
    /\ UNCHANGED <<cat, urls, ui, soup, links, li, results, all_data, written,
                   slept, last_gap, fetch_failed, rec_after_fail>>
    /\ UNCHANGED <<textVars, classVars, linkVars>>

\* serpapi_search returns the organic result URLs
SearchOk ==
    /\ pc = "search"
    /\ urls' \in SearchResults
    /\ ui' = 1
    /\ results' = <<>>
    /\ pc' = "url_loop"
    /\ event' = "step"
    /\ UNCHANGED <<cat, soup, links, li, all_data, written,
                   slept, last_gap, fetch_failed, rec_after_fail>>
    /\ UNCHANGED <<textVars, classVars, linkVars>>

\* requests.get / raise_for_status raise inside serpapi_search: nothing in
\* scrape_for_category or main catches, the exception ends the process
SearchErrorHandling ==
    /\ pc' = "crashed"
    /\ UNCHANGED <<urls, ui, results>>

SearchFails ==
    /\ pc = "search"
    /\ SearchErrorHandling
    /\ event' = "search_fail"
    /\ UNCHANGED <<cat, soup, links, li, all_data, written,
                   slept, last_gap, fetch_failed, rec_after_fail>>
    /\ UNCHANGED <<textVars, classVars, linkVars>>

\* for u in urls: sleep PAGE_REQUEST_DELAY, or return results to main at the
\* end of the list (main then sleeps 1.0 s, which is not PAGE_REQUEST_DELAY)
UrlLoop ==
    /\ pc = "url_loop"
    /\ IF ui > Len(urls)
       THEN /\ all_data' = all_data \o results
            /\ cat' = cat + 1
            /\ pc' = "main_loop"
            /\ UNCHANGED slept
       ELSE /\ slept' = TRUE
            /\ pc' = "fetch"
            /\ UNCHANGED <<all_data, cat>>
    /\ event' = "step"
    /\ UNCHANGED <<urls, ui, soup, links, li, results, written,
                   last_gap, fetch_failed, rec_after_fail>>
    /\ UNCHANGED <<textVars, classVars, linkVars>>

SkipUrl_propagate ==
    /\ pc' = "crashed"
    /\ UNCHANGED ui

\* except Exception around get_soup(u): print and continue
SkipUrl ==
    /\ pc' = "url_loop"
    /\ ui' = ui + 1

FetchFails ==
    /\ pc = "fetch"
    /\ NoteFetch
    /\ SkipUrl
    /\ event' = "fetch_fail"
    /\ fetch_failed' = TRUE
    /\ UNCHANGED <<cat, urls, soup, links, li, results, all_data, written, rec_after_fail>>
    /\ UNCHANGED <<textVars, classVars, linkVars>>

\* get_soup(u) succeeds; the page is classified and, if it is a listing, its
\* links are extracted
FetchAndClassify ==
    /\ pc = "fetch"
    /\ ~FetchMustFail(urls[ui])
    /\ NoteFetch
    /\ \E sp \in WebPages(urls[ui]) :
          /\ soup' = sp
          /\ IF is_listing_page(urls[ui], sp)
             THEN /\ links' \in extract_course_links_from_listing(
                                    urls[ui], sp, LowerAtom(UrlNetloc(urls[ui])))
                  /\ li' = 1
                  /\ pc' = "link_loop"
             ELSE /\ pc' = "detail"
                  /\ UNCHANGED <<links, li>>
    /\ event' = "step"
    /\ UNCHANGED <<cat, urls, ui, results, all_data, written, fetch_failed, rec_after_fail>>
    /\ UNCHANGED <<textVars, classVars, linkVars>>

\* for link in links: sleep, or go on with the next search result
LinkLoop ==
    /\ pc = "link_loop"
    /\ IF li > Len(links)
       THEN /\ ui' = ui + 1
            /\ pc' = "url_loop"
            /\ UNCHANGED slept
       ELSE /\ slept' = TRUE
            /\ pc' = "link_parse"
            /\ UNCHANGED ui
    /\ event' = "step"
    /\ UNCHANGED <<cat, urls, soup, links, li, results, all_data, written,
                   last_gap, fetch_failed, rec_after_fail>>
    /\ UNCHANGED <<textVars, classVars, linkVars>>

\* bookkeeping shared by the two callers of route_and_parse
AfterParse(o) ==
    /\ IF o.fetched THEN NoteFetch ELSE UNCHANGED <<slept, last_gap>>
    /\ event' = IF o.failed THEN "fetch_fail"
                ELSE IF o.kind = "raise" THEN "proc_error" ELSE "step"
    /\ fetch_failed' = (fetch_failed \/ o.failed)
    /\ IF o.kind = "record"
       THEN /\ results' = Append(results, WithCategory(o.rec))
            /\ rec_after_fail' = (rec_after_fail \/ fetch_failed)
       ELSE UNCHANGED <<results, rec_after_fail>>

\* parsed = route_and_parse(link) has no try around it: an exception leaves
\* scrape_for_category and main
LinkParseError(o) ==
    /\ pc' = "crashed"
    /\ UNCHANGED li

\* parsed = route_and_parse(link) for a link of a listing
LinkParse ==
    /\ pc = "link_parse"
    /\ \E o \in route_and_parse(links[li]) :
          /\ AfterParse(o)
          /\ IF o.kind = "raise"
             THEN LinkParseError(o)
             ELSE /\ pc' = "link_loop"
                  /\ li' = li + 1
    /\ UNCHANGED <<cat, urls, ui, soup, links, all_data, written>>
    /\ UNCHANGED <<textVars, classVars, linkVars>>

\* try: parsed = route_and_parse(u) except Exception: print
DetailParse ==
    /\ pc = "detail"
    /\ \E o \in route_and_parse(urls[ui]) :
          AfterParse(o)
    /\ ui' = ui + 1
    /\ pc' = "url_loop"
    /\ UNCHANGED <<cat, urls, soup, links, li, all_data, written>>
    /\ UNCHANGED <<textVars, classVars, linkVars>>

\* main after the loop: write the rows unless there are none
Output ==
    /\ pc = "output"
    /\ written' = IF all_data = <<>> THEN <<>> ELSE all_data
    /\ pc' = "done"
    /\ event' = "step"
    /\ UNCHANGED <<cat, urls, ui, soup, links, li, results, all_data,
                   slept, last_gap, fetch_failed, rec_after_fail>>
    /\ UNCHANGED <<textVars, classVars, linkVars>>

----------------------------------------------------------------------------
(* Specifications *)

IdleText ==
    /\ text = <<>> /\ max_len = 0 /\ out1 = <<>> /\ out2 = <<>> /\ tpc = "idle"

IdleClass ==
    /\ c_url = <<>> /\ c_soup = Page(<<>>, <<>>, FALSE) /\ c_result = FALSE
    /\ cpc = "idle"

IdleLinks ==
    /\ l_url = <<>> /\ l_soup = Page(<<>>, <<>>, FALSE) /\ l_links = <<>>
    /\ lpc = "idle"

IdleCrawl ==
    /\ pc = "idle" /\ cat = 1 /\ urls = <<>> /\ ui = 1
    /\ soup = Page(<<>>, <<>>, FALSE) /\ links = <<>> /\ li = 1
    /\ results = <<>> /\ all_data = <<>> /\ written = <<>>
    /\ slept = FALSE /\ last_gap = "none" /\ event = "start"
    /\ fetch_failed = FALSE /\ rec_after_fail = FALSE

\* the crawl
Init == InitCrawl /\ IdleText /\ IdleClass /\ IdleLinks
Next ==
    \/ MainLoop
    \/ SearchOk
    \/ SearchFails
    \/ UrlLoop
    \/ FetchFails
    \/ FetchAndClassify
    \/ LinkLoop
    \/ LinkParse
    \/ DetailParse
    \/ Output
Spec == Init /\ [][Next]_vars

\* short_text on bounded inputs
TextInit == InitText /\ IdleClass /\ IdleLinks /\ IdleCrawl
TextNext == ApplyShortText \/ ApplyShortTextAgain
SpecText == TextInit /\ [][TextNext]_vars

\* is_listing_page on bounded inputs
ClassInit == InitClass /\ IdleText /\ IdleLinks /\ IdleCrawl
ClassNext == Classify
SpecClassify == ClassInit /\ [][ClassNext]_vars

\* extract_course_links_from_listing on bounded inputs
LinksInit == InitLinks /\ IdleText /\ IdleClass /\ IdleCrawl
LinksNext == ExtractLinks
SpecLinks == LinksInit /\ [][LinksNext]_vars

----------------------------------------------------------------------------
(* Properties of short_text *)

\* The whitespace-collapsed form of s, computed position by position: a
\* whitespace atom survives (as one space) only when it follows a
\* non-whitespace atom and some non-whitespace atom comes after it.
KeepAt(s, i) ==
    IF IsSpace(s[i])
    THEN /\ i > 1
         /\ ~IsSpace(s[i - 1])
         /\ \E j \in (i + 1)..Len(s) : ~IsSpace(s[j])
    ELSE TRUE

RECURSIVE SquashFrom(_, _)
SquashFrom(s, i) ==
    IF i > Len(s) THEN <<>>
    ELSE (IF KeepAt(s, i) THEN <<IF IsSpace(s[i]) THEN " " ELSE s[i]>> ELSE <<>>)
         \o SquashFrom(s, i + 1)

Squashed(s) == SquashFrom(s, 1)

C8_SentinelForBlank ==
    tpc \in {"once", "twice"} =>
        /\ (Squashed(text) = <<>> => out1 = NotAvailable)
        /\ out1 # <<>>

----------------------------------------------------------------------------
(* Properties of is_listing_page *)

SpecKeywords ==
    {"course", "learn", "certificate", "program", "specialization", "path", "bootcamp"}

NoKeywordRule ==
    /\ ~In("courses", Lower(UrlPath(c_url)))
    /\ ~In("catalog", Lower(UrlPath(c_url)))
    /\ ~In("learn", Lower(UrlPath(c_url)))
    /\ ~In("courses", Lower(c_soup.title))

\* anchors of sc with a listing keyword in the lower-cased href
HrefMatches(sc) ==
    Cardinality({i \in 1..Len(sc) :
        \E k \in ListingHrefKeywords : In(k, Lower(sc[i].href))})

\* anchors of sc with a course-indicative keyword in the href or the text
HrefOrTextMatches(sc) ==
    Cardinality({i \in 1..Len(sc) :
        \E k \in SpecKeywords :
            In(k, Lower(sc[i].href)) \/ In(k, Lower(sc[i].text))})

\* C9 (as stated): when neither the URL path nor the title matches a listing
\* keyword, is_listing_page is true exactly when at least 3 of the first 200
\* anchors have a course-indicative keyword in their href or visible text.
C9_Original ==
    (cpc = "done" /\ NoKeywordRule) =>
        LET sc == Take(AnchorsWithHref(c_soup), ANCHOR_SCAN_LIMIT)
        IN  c_result <=> HrefOrTextMatches(sc) >= 3

\* C9 (amended): when neither the URL path nor the title matches a listing
\* keyword, is_listing_page is true exactly when at least 3 of the first 200
\* anchors have one of course/learn/program/specialization in their
\* lower-cased href (the visible text is not looked at): 2 gives false, 3
\* gives true.
C9_HrefThreshold ==
    (cpc = "done" /\ NoKeywordRule) =>
        LET sc == Take(AnchorsWithHref(c_soup), ANCHOR_SCAN_LIMIT)
            n  == HrefMatches(sc)
        IN  /\ c_result <=> n >= 3
            /\ n = 2 => ~c_result
            /\ n = 3 => c_result

\* C9 witness: exactly 3 href matches among the first 200 anchors, more
\* anchors than the scan limit, an anchor whose text alone has a keyword, and
\* the page classified as a listing.
C9_Witness ==
    /\ cpc = "done"
    /\ NoKeywordRule
    /\ Len(AnchorsWithHref(c_soup)) > ANCHOR_SCAN_LIMIT
    /\ LET sc == Take(AnchorsWithHref(c_soup), ANCHOR_SCAN_LIMIT)
       IN  HrefMatches(sc) = 3 /\ HrefOrTextMatches(sc) > 3
    /\ c_result

----------------------------------------------------------------------------
(* Properties of the crawl *)

Records == {results[i] : i \in 1..Len(results)}
               \cup {all_data[i] : i \in 1..Len(all_data)}
               \cup {written[i] : i \in 1..Len(written)}

\* C1: a get_soup that fails, for a search-result URL or for a link taken
\* from a listing, only skips that URL: the step adds no record, does not end
\* the run, and moves on to the next URL of the same list, leaving the
\* remaining URLs and categories in place; a run that ends before the output
\* step was ended by a search error or a processing error, never by a fetch.
C1_FetchFailureSkips ==
    /\ [][event' = "fetch_fail" =>
             /\ pc' \in {"url_loop", "link_loop"}
             /\ results' = results /\ all_data' = all_data
             /\ urls' = urls /\ cat' = cat
             /\ \/ pc = "fetch" /\ pc' = "url_loop" /\ ui' = ui + 1
                \/ pc = "detail" /\ pc' = "url_loop" /\ ui' = ui + 1
                \/ pc = "link_parse" /\ pc' = "link_loop" /\ li' = li + 1
                     /\ links' = links /\ ui' = ui]_vars
    /\ [](pc = "crashed" => event \in {"search_fail", "proc_error"})

\* C1 witness: a run in which a fetch failed, a record was added afterwards,
\* and the output step wrote the records.
C1_Witness ==
    /\ pc = "done"
    /\ fetch_failed
    /\ rec_after_fail
    /\ written # <<>>

\* C2: a search call that fails with a transport error is treated as an empty
\* sequence of result URLs; the run does not abort.
C2_SearchFailureIsEmpty ==
    event = "search_fail" => (pc = "url_loop" /\ urls = <<>>)

\* C3: no error raised while processing a single URL or listing (a platform
\* parser on a detail page or on a link expanded from a listing) aborts the
\* run.
C3_ProcessingErrorNotFatal ==
    event = "proc_error" => pc # "crashed"

\* C6: the url of every accumulated record contains neither '?' nor '#'.
C6_RecordUrlsStripped ==
    \A r \in Records : \A i \in 1..Len(r.url) : r.url[i] \notin {"?", "#"}

\* C10: no two page fetches happen back to back without PAGE_REQUEST_DELAY
\* being slept in between.
C10_DelayBetweenFetches ==
    last_gap # "unslept"

----------------------------------------------------------------------------
(* Properties of extract_course_links_from_listing *)

LDomain == LowerAtom(UrlNetloc(l_url))
LAnchors == AnchorsWithHref(l_soup)

\* position of the first anchor that yields the link x
FirstAnchorOf(x) ==
    CHOOSE i \in 1..Len(LAnchors) :
        /\ LinkCandidate(l_url, LAnchors[i], LDomain) = <<x>>
        /\ \A j \in 1..(i - 1) : LinkCandidate(l_url, LAnchors[j], LDomain) # <<x>>

\* positions of the anchors that yield a link no earlier anchor yields
DistinctInOrder ==
    {i \in 1..Len(LAnchors) :
        /\ LinkCandidate(l_url, LAnchors[i], LDomain) # <<>>
        /\ \A j \in 1..(i - 1) :
              LinkCandidate(l_url, LAnchors[j], LDomain)
                  # LinkCandidate(l_url, LAnchors[i], LDomain)}

\* C4: the returned sequence has no duplicate, at most 8 entries, and the
\* entries are in the document order of the anchors they were first taken
\* from; with 10 qualifying anchors it is exactly the first 8 distinct links.
C4_DocumentOrder ==
    lpc = "done" =>
        /\ \A i, j \in 1..Len(l_links) : i # j => l_links[i] # l_links[j]
        /\ Len(l_links) <= MAX_COURSES_FROM_LISTING
        /\ \A i, j \in 1..Len(l_links) :
              i < j => FirstAnchorOf(l_links[i]) < FirstAnchorOf(l_links[j])
        /\ Cardinality(DistinctInOrder) >= 10 =>
              /\ Len(l_links) = 8
              /\ \A i \in 1..8 :
                    Cardinality({k \in DistinctInOrder : k <= FirstAnchorOf(l_links[i])}) = i

\* C5: every returned link belongs to the platform domain of the listing
\* page and comes from an anchor with a course-indicative keyword in its
\* href or text; an anchor whose href is not on the platform domain is never
\* returned.
C5_OnPlatformDomain ==
    lpc = "done" =>
        \A i \in 1..Len(l_links) :
            /\ UrlNetloc(l_links[i]) = LDomain
            /\ \E n \in 1..Len(LAnchors) :
                  /\ LinkCandidate(l_url, LAnchors[n], LDomain) = <<l_links[i]>>
                  /\ \E k \in SpecKeywords :
                        \/ In(k, ResolveHref(l_url, LAnchors[n].href))
                        \/ In(k, Lower(LAnchors[n].text))

====
